---- MODULE Spec2Model ----
(***************************************************************************)
(* A model of the text extractors of pliers (pliers/extractors/text.py).   *)
(* Every extractor is modelled by the attributes its constructor sets and  *)
(* by one action per _extract call; the last call of every extractor is    *)
(* recorded so that its result can be stated against its input.            *)
(***************************************************************************)
EXTENDS Integers, Sequences, FiniteSets

(***************************************************************************)
(* Bounds of the model.                                                    *)
(***************************************************************************)
MaxRows == 2        \* keys of a dictionary table / of a fetched source
MaxBatch == 2       \* stimuli handed to one batch _extract call
MaxDim == 2         \* vector_size of an embedding table
MaxElems == 2       \* elements of a ComplexTextStim
MaxInput == 3       \* stimuli handed to a batch-capable extractor

(***************************************************************************)
(* The state: the attributes of every extractor and its last call.         *)
(***************************************************************************)
VARIABLES
    dictionary,      \* the table handed to DictionaryExtractor.__init__
    varg,            \* the `variables` argument: [given, cols]
    fetched,         \* what fetch_dictionary returns for every source name
    requested,       \* the `variables` argument of PredefinedDictionaryExtractor
    data,            \* self.data
    variables,       \* self.variables
    missing,         \* self.missing
    case_sensitive,  \* self.case_sensitive
    dcall,           \* DictionaryExtractor: the last _extract call and its result
    poscall,         \* PartOfSpeechExtractor: the last _extract call, with the
                     \* batch, the tagger's tags, the outcome and the results
    wvModel,         \* self.wvModel: [vector_size, vectors]
    prefix,          \* self.prefix
    ecall,           \* WordEmbeddingExtractor: the last _extract call
    ccall,           \* ComplexTextExtractor: the last _extract call
    vectorizer,      \* self.vectorizer of every TextVectorizerExtractor
    vcall,           \* TextVectorizerExtractor: the last _extract call of each
    bextractor,      \* the batch-capable extractor: "pos" or "vec"
    binput,          \* the stimuli handed to the extractor
    bsize,           \* _batch_size
    bdone,           \* the number of stimuli whose chunk was processed
    bresults,        \* the results collected so far
    bpc              \* "running", "done" (returned) or "error" (raised)

dictVars == <<dictionary, varg, fetched, requested, data, variables, missing,
              case_sensitive, dcall>>
embedVars == <<wvModel, prefix, ecall>>
vecVars == <<vectorizer, vcall>>
batchVars == <<bextractor, binput, bsize, bdone, bresults, bpc>>
posVars == <<poscall>>
complexVars == <<ccall>>
vars == <<dictVars, posVars, embedVars, complexVars, vecVars, batchVars>>

(***************************************************************************)
(* Sample universes.                                                       *)
(***************************************************************************)
\* numpy's NaN, the default of `missing` and the empty cell of a DataFrame
NaN == "NaN"
\* the texts of the TextStims
Texts == {"John", "john", "cat"}
\* the values a cell of a dictionary may hold
CellVals == {NaN, "1.0", "2.0"}
\* the values of the `missing` argument
Sentinels == {NaN, "0.0"}

Range(s) == {s[i] : i \in DOMAIN s}
Min(a, b) == IF a <= b THEN a ELSE b

\* str.lower on the sample texts
Lower(t) == CASE t = "John" -> "john" [] OTHER -> t

(***************************************************************************)
(* DataFrames: an index (the row keys), the ordered columns, the cells.    *)
(***************************************************************************)
Frame(index, columns, cell) == [index |-> index, columns |-> columns, cell |-> cell]

\* every table over `columns` with at most MaxRows keys and cells in `vals`
Frames(columns, vals) ==
    UNION { { Frame(ks, columns, c) : c \in [ks -> [Range(columns) -> vals]] }
            : ks \in { s \in SUBSET Texts : Cardinality(s) <= MaxRows } }

\* data[variables]
SelectColumns(df, v) ==
    Frame(df.index, v, [k \in df.index |-> [c \in Range(v) |-> df.cell[k][c]]])

\* Series.fillna(missing)
FillNa(row, fill) == [c \in DOMAIN row |-> IF row[c] = NaN THEN fill ELSE row[c]]

\* the keys of Series.to_dict(): the labels in order, a repeated label once
RECURSIVE Dedup(_)
Dedup(s) ==
    IF s = <<>> THEN <<>>
    ELSE LET rest == Dedup(SubSeq(s, 1, Len(s) - 1))
             last == s[Len(s)]
         IN IF last \in Range(rest) THEN rest ELSE Append(rest, last)

(***************************************************************************)
(* DictionaryExtractor                                                     *)
(***************************************************************************)

NoVariables == [given |-> FALSE, cols |-> <<>>]
Given(cols) == [given |-> TRUE, cols |-> cols]
NoDictCall == [outcome |-> "none", stim |-> "", features |-> <<>>, values |-> <<>>]

\* DictionaryExtractor.__init__: self.data
InitData(d, v) == IF v.given THEN SelectColumns(d, v.cols) ELSE d
\* DictionaryExtractor.__init__: self.variables
InitVariables(d, v) == IF v.given THEN v.cols ELSE d.columns

\* a mutant: the row of a key is returned without fillna
MutLookupNoFill(df, names, fill, text) ==
    IF text \notin df.index
    THEN [index |-> names, val |-> [c \in Range(names) |-> fill]]
    ELSE [index |-> df.columns, val |-> df.cell[text]]

\* DictionaryExtractor._extract: the Series `vals` before to_dict()
Lookup(df, names, fill, text) ==
    IF text \notin df.index
    THEN [index |-> names, val |-> [c \in Range(names) |-> fill]]
    ELSE [index |-> df.columns, val |-> FillNa(df.cell[text], fill)]

\* DictionaryExtractor._extract: the ExtractorResult
DictionaryExtract(df, names, fill, text) ==
    LET vals == Lookup(df, names, fill, text)
        keys == Dedup(vals.index)
    IN [outcome |-> "ok", stim |-> text, features |-> keys,
        values |-> << [i \in 1..Len(keys) |-> vals.val[keys[i]]] >>]

\* extractor.extract(TextStim(text))
DictExtract(text) ==
    /\ dcall' = DictionaryExtract(data, variables, missing, text)
    /\ UNCHANGED <<dictionary, varg, fetched, requested, data, variables,
                   missing, case_sensitive>>
    /\ UNCHANGED <<posVars, embedVars, complexVars, vecVars, batchVars>>

DictColumns == <<"valence", "arousal">>
VariableArgs ==
    {NoVariables, Given(<<"valence">>), Given(<<"arousal">>),
     Given(<<"arousal", "valence">>), Given(<<"valence", "arousal">>)}

NoFetch == <<>>

\* DictionaryExtractor(dictionary, variables, missing)
DictInit ==
    /\ dictionary \in Frames(DictColumns, CellVals)
    /\ varg \in VariableArgs
    /\ missing \in Sentinels
    /\ data = InitData(dictionary, varg)
    /\ variables = InitVariables(dictionary, varg)
    /\ fetched = NoFetch
    /\ requested = <<>>
    /\ case_sensitive = TRUE
    /\ dcall = NoDictCall


(***************************************************************************)
(* PredefinedDictionaryExtractor                                           *)
(***************************************************************************)
\* the source names fetch_dictionary knows, and the columns of each
SourceColumns == [affect |-> <<"V", "A">>, freq |-> <<"F">>]
PredefVals == {NaN, "1.0"}

\* the loop over a list of 'dict/column' strings, each already split at '/':
\* an ordered mapping source -> columns, as a sequence of [name, cols]
RECURSIVE ParseVariables(_)
ParseVariables(vs) ==
    IF vs = <<>> THEN <<>>
    ELSE LET acc == ParseVariables(SubSeq(vs, 1, Len(vs) - 1))
             v == vs[Len(vs)]
             acc1 == IF \E i \in DOMAIN acc : acc[i].name = v[1]
                     THEN acc
                     ELSE Append(acc, [name |-> v[1], cols |-> <<>>])
         IN [i \in DOMAIN acc1 |->
                IF acc1[i].name = v[1] /\ Len(v) = 2
                THEN [acc1[i] EXCEPT !.cols = Append(@, v[2])]
                ELSE acc1[i]]

\* `variables` after the isinstance(variables, (list, tuple)) branch
ResolveVariables(req) ==
    IF req.form = "list" THEN ParseVariables(req.items) ELSE req.items

\* d.index = d.index.str.lower()
LowerIndex(d) ==
    LET idx == {Lower(k) : k \in d.index}
    IN Frame(idx, d.columns,
             [k \in idx |-> d.cell[CHOOSE j \in d.index : Lower(j) = k]])

\* d.columns = ['%s_%s' % (k, c) for c in d.columns]
PrefixColumns(k, d) ==
    LET cols == [i \in DOMAIN d.columns |-> <<k, d.columns[i]>>]
    IN Frame(d.index, cols,
             [r \in d.index |-> [c \in Range(cols) |-> d.cell[r][c[2]]]])

\* the body of the loop over variables.items()
PrepareSource(k, v, d, cs) ==
    LET d1 == IF ~cs THEN LowerIndex(d) ELSE d
        d2 == IF v # <<>> THEN SelectColumns(d1, v) ELSE d1
    IN PrefixColumns(k, d2)

RECURSIVE ConcatColumns(_)
ConcatColumns(dicts) ==
    IF dicts = <<>> THEN <<>>
    ELSE ConcatColumns(SubSeq(dicts, 1, Len(dicts) - 1)) \o dicts[Len(dicts)].columns

\* the cells of a join over the keys idx
JoinOn(idx, dicts) ==
    LET cols == ConcatColumns(dicts)
        owner(c) == CHOOSE i \in DOMAIN dicts : c \in Range(dicts[i].columns)
    IN Frame(idx, cols,
             [k \in idx |-> [c \in Range(cols) |->
                 IF k \in dicts[owner(c)].index
                 THEN dicts[owner(c)].cell[k][c]
                 ELSE NaN]])

\* a mutant: join='inner'
MutInnerConcat(dicts) ==
    JoinOn({k \in UNION {dicts[i].index : i \in DOMAIN dicts} :
                \A i \in DOMAIN dicts : k \in dicts[i].index}, dicts)

\* pd.concat(dicts, axis=1, join='outer')
OuterConcat(dicts) ==
    JoinOn(UNION {dicts[i].index : i \in DOMAIN dicts}, dicts)

\* the `dictionary` handed to DictionaryExtractor.__init__
PredefDictionary(req, fetch, cs) ==
    LET vs == ResolveVariables(req)
    IN OuterConcat([i \in DOMAIN vs |->
                       PrepareSource(vs[i].name, vs[i].cols, fetch[vs[i].name], cs)])

\* no two keys of the table fall together when lowercased
FoldsUniquely(d) ==
    \A k1, k2 \in d.index : Lower(k1) = Lower(k2) => k1 = k2

Requests ==
    { [form |-> "dict", items |-> << [name |-> "affect", cols |-> <<>>],
                                     [name |-> "freq", cols |-> <<>>] >>],
      [form |-> "dict", items |-> << [name |-> "freq", cols |-> <<"F">>],
                                     [name |-> "affect", cols |-> <<"A">>] >>],
      [form |-> "list", items |-> << <<"affect", "A">>, <<"freq", "F">>,
                                     <<"affect", "V">> >>] }

\* PredefinedDictionaryExtractor(variables, missing, case_sensitive)
PredefInit ==
    /\ fetched \in [affect : Frames(SourceColumns.affect, PredefVals),
                    freq : Frames(SourceColumns.freq, PredefVals)]
    /\ requested \in Requests
    /\ missing \in Sentinels
    /\ case_sensitive \in BOOLEAN
    /\ case_sensitive \/ (FoldsUniquely(fetched.affect) /\ FoldsUniquely(fetched.freq))
    /\ dictionary = PredefDictionary(requested, fetched, case_sensitive)
    /\ varg = NoVariables
    /\ data = InitData(dictionary, varg)
    /\ variables = InitVariables(dictionary, varg)
    /\ dcall = NoDictCall


\* no dictionary extractor was built
DictIdle ==
    /\ dictionary = <<>> /\ varg = NoVariables /\ fetched = NoFetch
    /\ requested = <<>> /\ data = <<>> /\ variables = <<>> /\ missing = NaN
    /\ case_sensitive = TRUE /\ dcall = NoDictCall

(***************************************************************************)
(* PartOfSpeechExtractor                                                   *)
(***************************************************************************)

\* the keys of help/tagsets/upenn_tagset.pickle (a sample, in their order)
TagsetKeys == <<"NN", "VB", "JJ">>
\* the words of the TextStims handed to the tagger
Words == {"John", "cat", "#"}
\* the tags nltk.pos_tag assigns: the tagger's own classes, of which '#' is
\* no key of the tagset file
TaggerTags == Range(TagsetKeys) \cup {"#"}

SeqsUpTo(S, n) == UNION {[1..m -> S] : m \in 0..n}

\* dict.fromkeys(keys, v), as the ordered keys and their values
FromKeys(keys, v) == [keys |-> Dedup(keys), val |-> [k \in Range(keys) |-> v]]
\* d[k] = v
SetItem(d, k, v) ==
    [keys |-> IF k \in Range(d.keys) THEN d.keys ELSE Append(d.keys, k),
     val |-> [x \in Range(d.keys) \cup {k} |-> IF x = k THEN v ELSE d.val[x]]]

\* the body of the loop over the stims: one ExtractorResult
POSResult(s, tag) ==
    LET pos_vector == SetItem(FromKeys(TagsetKeys, 0), tag, 1)
    IN [stim |-> s, features |-> pos_vector.keys,
        values |-> << [i \in DOMAIN pos_vector.keys |->
                          pos_vector.val[pos_vector.keys[i]]] >>]

\* a mutant: no comparison of the lengths, the shorter of the two is used
MutPOSTruncate(stims, pos) ==
    [outcome |-> "ok",
     results |-> [i \in 1..Min(Len(stims), Len(pos)) |-> POSResult(stims[i], pos[i])]]

\* PartOfSpeechExtractor._extract, pos being the tags of nltk.pos_tag(words)
PartOfSpeechExtract(stims, pos) ==
    IF Len(stims) # Len(pos)
    THEN [outcome |-> "PliersError", results |-> <<>>]
    ELSE [outcome |-> "ok",
          results |-> [i \in 1..Len(stims) |-> POSResult(stims[i], pos[i])]]

NoPOSCall == [outcome |-> "none", stims |-> <<>>, pos |-> <<>>, results |-> <<>>]

\* a batch of TextStims is handed to the extractor
POSCall(stims) ==
    /\ poscall.outcome # "called"
    /\ poscall' = [outcome |-> "called", stims |-> stims, pos |-> <<>>,
                   results |-> <<>>]
    /\ UNCHANGED <<dictVars, embedVars, complexVars, vecVars, batchVars>>

\* extractor._extract(stims), the tagger answering pos
POSExtract(pos) ==
    /\ poscall.outcome = "called"
    /\ LET r == PartOfSpeechExtract(poscall.stims, pos)
       IN poscall' = [outcome |-> r.outcome, stims |-> poscall.stims, pos |-> pos,
                      results |-> r.results]
    /\ UNCHANGED <<dictVars, embedVars, complexVars, vecVars, batchVars>>

POSInit == poscall = NoPOSCall

(***************************************************************************)
(* WordEmbeddingExtractor                                                  *)
(***************************************************************************)

EmbedVals == {0, 1}
Prefixes == {"embedding_dim", "w2v_"}
NoEmbedCall == [outcome |-> "none", stim |-> "", features |-> <<>>, values |-> <<>>]

\* a mutant: the vector of an unknown word has one dimension
MutEmbeddingShortZeros(wv, pre, text) ==
    LET num_dims == wv.vector_size
        embedding_vector == IF text \in DOMAIN wv.vectors
                            THEN wv.vectors[text]
                            ELSE [i \in 1..1 |-> 0]
    IN [outcome |-> "ok", stim |-> text,
        features |-> [i \in 1..num_dims |-> <<pre, i - 1>>],
        values |-> <<embedding_vector>>]

\* WordEmbeddingExtractor._extract
WordEmbeddingExtract(wv, pre, text) ==
    LET num_dims == wv.vector_size
        embedding_vector == IF text \in DOMAIN wv.vectors
                            THEN wv.vectors[text]
                            ELSE [i \in 1..num_dims |-> 0]
    IN [outcome |-> "ok", stim |-> text,
        features |-> [i \in 1..num_dims |-> <<pre, i - 1>>],
        values |-> <<embedding_vector>>]

EmbedExtract(text) ==
    /\ ecall' = WordEmbeddingExtract(wvModel, prefix, text)
    /\ UNCHANGED <<wvModel, prefix>>
    /\ UNCHANGED <<dictVars, posVars, complexVars, vecVars, batchVars>>

\* WordEmbeddingExtractor(embedding_file, binary, prefix)
EmbedInit ==
    /\ \E d \in 1..MaxDim : \E vocab \in SUBSET Texts :
          wvModel \in {[vector_size |-> d, vectors |-> v] :
                          v \in [vocab -> [1..d -> EmbedVals]]}
    /\ prefix \in Prefixes
    /\ ecall = NoEmbedCall
EmbedIdle == wvModel = <<>> /\ prefix = "" /\ ecall = NoEmbedCall

(***************************************************************************)
(* ComplexTextExtractor                                                    *)
(***************************************************************************)

\* the elements of a ComplexTextStim
Elements == [text : {"john", "cat"}, onset : {0, 2}, duration : {1, 3}]
NoComplexCall ==
    [outcome |-> "none", elements |-> <<>>, features |-> <<>>, values |-> <<>>,
     onsets |-> <<>>, durations |-> <<>>]

\* zip(*props): nothing for no props, else the three columns
Zip3(props) ==
    IF props = <<>> THEN <<>>
    ELSE << [i \in DOMAIN props |-> props[i][1]],
            [i \in DOMAIN props |-> props[i][2]],
            [i \in DOMAIN props |-> props[i][3]] >>

\* ComplexTextExtractor._extract
ComplexTextExtract(elements) ==
    LET props == [i \in DOMAIN elements |->
                     <<elements[i].text, elements[i].onset, elements[i].duration>>]
        cols == Zip3(props)
    IN IF Len(cols) # 3
       THEN \* vals, onsets, durations = ... : not enough values to unpack
            [outcome |-> "ValueError", elements |-> elements, features |-> <<>>,
             values |-> <<>>, onsets |-> <<>>, durations |-> <<>>]
       ELSE [outcome |-> "ok", elements |-> elements, features |-> <<"word">>,
             values |-> cols[1], onsets |-> cols[2], durations |-> cols[3]]

\* a ComplexTextStim is handed to the extractor
ComplexCall(elements) ==
    /\ ccall.outcome # "called"
    /\ ccall' = [NoComplexCall EXCEPT !.outcome = "called", !.elements = elements]
    /\ UNCHANGED <<dictVars, posVars, embedVars, vecVars, batchVars>>

\* extractor._extract(stim)
ComplexExtract ==
    /\ ccall.outcome = "called"
    /\ ccall' = ComplexTextExtract(ccall.elements)
    /\ UNCHANGED <<dictVars, posVars, embedVars, vecVars, batchVars>>

ComplexInit == ccall = NoComplexCall

(***************************************************************************)
(* TextVectorizerExtractor                                                 *)
(***************************************************************************)

Instances == {"x1", "x2"}
\* the texts of the documents
Docs == {"a cat", "Cat dog", "dog dog"}
\* CountVectorizer's analyzer on the sample documents: lowercased tokens of
\* two or more characters
Analyze(doc) ==
    CASE doc = "Cat dog" -> <<"cat", "dog">>
      [] doc = "dog dog" -> <<"dog", "dog">>
      [] doc = "a cat" -> <<"cat">>
\* the tokens in sorted order
TokenOrder == <<"cat", "dog">>

\* CountVectorizer(*args, **kwargs), not fitted
Unfitted == [fitted |-> FALSE, vocabulary_ |-> {}]
NoVecCall == [outcome |-> "none", stims |-> <<>>, before |-> Unfitted, results |-> <<>>]

\* a mutant: the vocabulary of the earlier calls is kept and extended
MutFitAccumulates(vz, docs) ==
    vz.vocabulary_ \cup UNION {Range(Analyze(docs[i])) : i \in DOMAIN docs}

\* the vocabulary fit_transform learns from the documents
FitVocabulary(vz, docs) ==
    UNION {Range(Analyze(docs[i])) : i \in DOMAIN docs}

\* self.vectorizer.get_feature_names()
FeatureNames(vz) == SelectSeq(TokenOrder, LAMBDA t : t \in vz.vocabulary_)

Count(tokens, t) == Cardinality({i \in DOMAIN tokens : tokens[i] = t})

\* self.vectorizer.fit_transform(docs).toarray(): the fitted vectorizer and
\* the matrix of counts
FitTransform(vz, docs) ==
    LET fit == [fitted |-> TRUE, vocabulary_ |-> FitVocabulary(vz, docs)]
        names == FeatureNames(fit)
    IN [vectorizer |-> fit,
        mat |-> [i \in DOMAIN docs |->
                    [j \in DOMAIN names |-> Count(Analyze(docs[i]), names[j])]]]

\* a mutant: every result is attached to the first stimulus
MutVectorizerFirstStim(vz, stims) ==
    LET ft == FitTransform(vz, stims)
    IN [vectorizer |-> ft.vectorizer,
        results |-> [i \in DOMAIN ft.mat |->
                        [stim |-> stims[1],
                         features |-> FeatureNames(ft.vectorizer),
                         values |-> <<ft.mat[i]>>]]]

\* TextVectorizerExtractor._extract: the vectorizer after the call and the
\* ExtractorResults
TextVectorizerExtract(vz, stims) ==
    LET ft == FitTransform(vz, stims)
    IN [vectorizer |-> ft.vectorizer,
        results |-> [i \in DOMAIN ft.mat |->
                        [stim |-> stims[i],
                         features |-> FeatureNames(ft.vectorizer),
                         values |-> <<ft.mat[i]>>]]]

\* extractor._extract(stims) on instance x
VecExtract(x, stims) ==
    LET r == TextVectorizerExtract(vectorizer[x], stims)
    IN /\ vectorizer' = [vectorizer EXCEPT ![x] = r.vectorizer]
       /\ vcall' = [vcall EXCEPT ![x] = [outcome |-> "ok", stims |-> stims,
                                         before |-> vectorizer[x],
                                         results |-> r.results]]
       /\ UNCHANGED <<dictVars, posVars, embedVars, complexVars, batchVars>>

\* TextVectorizerExtractor() for every instance
VecInit ==
    /\ vectorizer = [x \in Instances |-> Unfitted]
    /\ vcall = [x \in Instances |-> NoVecCall]

(***************************************************************************)
(* BatchTransformerMixin: the stimuli are handed to _extract in chunks of  *)
(* _batch_size and the results of the chunks are concatenated.             *)
(***************************************************************************)

\* the next chunk
Chunk == SubSeq(binput, bdone + 1, Min(bdone + bsize, Len(binput)))

\* the chunk's results are appended
ChunkDone(results) ==
    /\ bresults' = bresults \o results
    /\ bdone' = bdone + Len(Chunk)
    /\ UNCHANGED <<bextractor, binput, bsize, bpc>>

\* _extract raised: the call returns nothing
ChunkRaised ==
    /\ bresults' = <<>>
    /\ bpc' = "error"
    /\ UNCHANGED <<bextractor, binput, bsize, bdone>>

\* one chunk of a PartOfSpeechExtractor
BatchChunkPOS ==
    /\ bpc = "running" /\ bextractor = "pos" /\ bdone < Len(binput)
    /\ \E pos \in SeqsUpTo(TaggerTags, Len(Chunk) + 1) :
          LET r == PartOfSpeechExtract(Chunk, pos)
          IN IF r.outcome = "ok" THEN ChunkDone(r.results) ELSE ChunkRaised
    /\ UNCHANGED <<dictVars, posVars, embedVars, complexVars, vecVars>>

\* one chunk of a TextVectorizerExtractor
BatchChunkVec ==
    /\ bpc = "running" /\ bextractor = "vec" /\ bdone < Len(binput)
    /\ LET r == TextVectorizerExtract(vectorizer["x1"], Chunk)
       IN /\ ChunkDone(r.results)
          /\ vectorizer' = [vectorizer EXCEPT !["x1"] = r.vectorizer]
    /\ UNCHANGED <<dictVars, posVars, embedVars, complexVars, vcall>>

\* every chunk was processed: the results are returned
BatchReturn ==
    /\ bpc = "running" /\ bdone = Len(binput)
    /\ bpc' = "done"
    /\ UNCHANGED <<bextractor, binput, bsize, bdone, bresults>>
    /\ UNCHANGED <<dictVars, posVars, embedVars, complexVars, vecVars>>

BatchInit ==
    /\ bextractor \in {"pos", "vec"}
    /\ binput \in SeqsUpTo(IF bextractor = "pos" THEN Words ELSE Docs, MaxInput)
    /\ bsize \in 1..MaxInput
    /\ bdone = 0
    /\ bresults = <<>>
    /\ bpc = "running"
BatchIdle ==
    /\ bextractor = "" /\ binput = <<>> /\ bsize = 1 /\ bdone = 0
    /\ bresults = <<>> /\ bpc = "idle"

(***************************************************************************)
(* Specifications: one per extractor, the others not built.                *)
(***************************************************************************)

InitDict ==
    DictInit /\ POSInit /\ EmbedIdle /\ ComplexInit /\ VecInit /\ BatchIdle
NextDict == \E text \in Texts : DictExtract(text)
SpecDict == InitDict /\ [][NextDict]_vars

InitPredef ==
    PredefInit /\ POSInit /\ EmbedIdle /\ ComplexInit /\ VecInit /\ BatchIdle
NextPredef == \E text \in Texts : DictExtract(text)
SpecPredef == InitPredef /\ [][NextPredef]_vars

InitPOS ==
    DictIdle /\ POSInit /\ EmbedIdle /\ ComplexInit /\ VecInit /\ BatchIdle
NextPOS ==
    \/ \E stims \in SeqsUpTo(Words, MaxBatch) : POSCall(stims)
    \/ \E pos \in SeqsUpTo(TaggerTags, MaxBatch + 1) : POSExtract(pos)
SpecPOS == InitPOS /\ [][NextPOS]_vars

InitEmbed ==
    DictIdle /\ POSInit /\ EmbedInit /\ ComplexInit /\ VecInit /\ BatchIdle
NextEmbed == \E text \in Texts : EmbedExtract(text)
SpecEmbed == InitEmbed /\ [][NextEmbed]_vars

InitComplex ==
    DictIdle /\ POSInit /\ EmbedIdle /\ ComplexInit /\ VecInit /\ BatchIdle
NextComplex ==
    \/ \E elements \in SeqsUpTo(Elements, MaxElems) : ComplexCall(elements)
    \/ ComplexExtract
SpecComplex == InitComplex /\ [][NextComplex]_vars

InitVec ==
    DictIdle /\ POSInit /\ EmbedIdle /\ ComplexInit /\ VecInit /\ BatchIdle
NextVec ==
    \E x \in Instances :
        \E stims \in SeqsUpTo(Docs, MaxBatch) \ {<<>>} : VecExtract(x, stims)
SpecVec == InitVec /\ [][NextVec]_vars

InitBatch ==
    DictIdle /\ POSInit /\ EmbedIdle /\ ComplexInit /\ VecInit /\ BatchInit
NextBatch == BatchChunkPOS \/ BatchChunkVec \/ BatchReturn
SpecBatch == InitBatch /\ [][NextBatch]_vars

\* C1: after every _extract call the result is one row over the requested
\* variables, in their order: the table's values for the stimulus' text with
\* every NaN cell replaced by `missing` when the text is a key of the table,
\* and `missing` for every requested variable when it is not.
C1_DictionaryLookup ==
    dcall.outcome = "ok" =>
        LET req == IF varg.given THEN varg.cols ELSE dictionary.columns
            t == dcall.stim
        IN /\ dcall.features = req
           /\ Len(dcall.values) = 1
           /\ Len(dcall.values[1]) = Len(req)
           /\ \A i \in 1..Len(req) :
                dcall.values[1][i] =
                    IF t \in dictionary.index
                    THEN IF dictionary.cell[t][req[i]] = NaN
                         THEN missing
                         ELSE dictionary.cell[t][req[i]]
                    ELSE missing

\* a hit on a row with an empty cell, with a sentinel other than NaN
C1_Witness ==
    /\ dcall.outcome = "ok"
    /\ dcall.stim \in dictionary.index
    /\ varg.given
    /\ missing # NaN
    /\ \E c \in Range(varg.cols) : dictionary.cell[dcall.stim][c] = NaN
    /\ \E c \in Range(varg.cols) : dictionary.cell[dcall.stim][c] # NaN

\* the key under which a source row is stored in the joined table
StoredKey(k) == IF case_sensitive THEN k ELSE Lower(k)
\* the columns of source s the extractor was asked for
RequestedColumns(item) ==
    IF item.cols = <<>> THEN fetched[item.name].columns ELSE item.cols
\* the position, in the joined row, of the i-th source's j-th column
ColumnOffset(vs, i) ==
    LET RECURSIVE Sum(_)
        Sum(n) == IF n = 0 THEN 0 ELSE Sum(n - 1) + Len(RequestedColumns(vs[n]))
    IN Sum(i - 1)

\* C2: built with case_sensitive=False, the extractor returns the same values
\* for two texts that differ only in letter case; built with
\* case_sensitive=True, a text is looked up under its exact spelling only.
C2_CaseInsensitiveLookup ==
    dcall.outcome = "ok" =>
        /\ ~case_sensitive =>
              \A t2 \in Texts :
                  Lower(t2) = Lower(dcall.stim) =>
                      DictionaryExtract(data, variables, missing, t2).values
                          = dcall.values
        /\ case_sensitive =>
              ((\A s \in DOMAIN fetched : dcall.stim \notin fetched[s].index)
                  => \A i \in DOMAIN dcall.values[1] : dcall.values[1][i] = missing)

\* C3: for a key present in at least one of two sources, the result is one
\* row holding every requested column of both sources, each named by its
\* source and column; the columns of a source that has the key carry the
\* values it stores (an empty cell filled with `missing`), the columns of a
\* source that lacks it equal `missing`.
C3_OuterJoin ==
    dcall.outcome = "ok" =>
        LET vs == ResolveVariables(requested)
            t == dcall.stim
            rows(s) == {k \in fetched[s].index : StoredKey(k) = t}
        IN (\E s \in DOMAIN fetched : rows(s) # {}) =>
            /\ Len(dcall.values) = 1
            /\ Len(dcall.features) = ColumnOffset(vs, Len(vs) + 1)
            /\ Len(dcall.values[1]) = Len(dcall.features)
            /\ \A i \in DOMAIN vs :
                 \A j \in DOMAIN RequestedColumns(vs[i]) :
                   LET s == vs[i].name
                       c == RequestedColumns(vs[i])[j]
                       p == ColumnOffset(vs, i) + j
                   IN /\ dcall.features[p] = <<s, c>>
                      /\ \A k \in rows(s) :
                            dcall.values[1][p] =
                                IF fetched[s].cell[k][c] = NaN
                                THEN missing ELSE fetched[s].cell[k][c]
                      /\ rows(s) = {} => dcall.values[1][p] = missing

\* a key one source has with a stored value and the other source lacks
C3_Witness ==
    /\ dcall.outcome = "ok"
    /\ missing # NaN
    /\ dcall.stim \in fetched.affect.index
    /\ dcall.stim \notin fetched.freq.index
    /\ fetched.freq.index # {}
    /\ \E p \in DOMAIN dcall.values[1] : dcall.values[1][p] = "1.0"
    /\ \E p \in DOMAIN dcall.values[1] :
          dcall.features[p][1] = "freq" /\ dcall.values[1][p] = missing

RECURSIVE SumSeq(_)
SumSeq(q) == IF q = <<>> THEN 0 ELSE q[1] + SumSeq(Tail(q))

\* C4: when the tagger returns one tag per unit, every result is a one-hot
\* vector over the tag inventory: its feature names are the inventory, the
\* same for every unit, the assigned tag's value is 1, every other value is
\* 0 and the values sum to 1.
C4_OneHotOverInventory ==
    poscall.outcome = "ok" =>
        \A i \in DOMAIN poscall.results :
            LET r == poscall.results[i]
            IN /\ r.features = TagsetKeys
               /\ Len(r.values) = 1
               /\ Len(r.values[1]) = Len(r.features)
               /\ \A p \in DOMAIN r.features :
                     r.values[1][p] = IF r.features[p] = poscall.pos[i] THEN 1 ELSE 0
               /\ \E p \in DOMAIN r.features : r.features[p] = poscall.pos[i]
               /\ SumSeq(r.values[1]) = 1

\* C5: when the tagger returns a number of tags other than the number of
\* units, the call raises and returns no result for any unit of the batch.
C5_MismatchRaises ==
    (poscall.outcome \notin {"none", "called"}
        /\ Len(poscall.pos) # Len(poscall.stims)) =>
            /\ poscall.outcome = "PliersError"
            /\ poscall.results = <<>>

\* the tagger answered a batch of two units with one tag, and with three
C5_Witness ==
    /\ poscall.outcome = "PliersError"
    /\ Len(poscall.stims) = 2
    /\ Len(poscall.pos) \in {1, 3}

\* C6: the row of a text of the vocabulary is the stored vector, the row of
\* any other text is the zero vector of vector_size entries, and the feature
\* names are the prefix followed by 0 .. vector_size - 1.
C6_EmbeddingLookup ==
    ecall.outcome = "ok" =>
        LET d == wvModel.vector_size
            t == ecall.stim
        IN /\ Len(ecall.values) = 1
           /\ t \in DOMAIN wvModel.vectors => ecall.values[1] = wvModel.vectors[t]
           /\ t \notin DOMAIN wvModel.vectors =>
                 /\ Len(ecall.values[1]) = d
                 /\ \A i \in 1..d : ecall.values[1][i] = 0
           /\ Len(ecall.features) = d
           /\ \A i \in 1..d : ecall.features[i] = <<prefix, i - 1>>

\* an unknown text looked up in a table of two dimensions that stores a
\* vector other than zero
C6_Witness ==
    /\ ecall.outcome = "ok"
    /\ wvModel.vector_size = 2
    /\ ecall.stim \notin DOMAIN wvModel.vectors
    /\ \E t \in DOMAIN wvModel.vectors : wvModel.vectors[t][1] # 0

\* C7: when the extractor has returned, it returned one result per input
\* stimulus, the i-th result being that of the i-th stimulus, whatever the
\* chunk size.
C7_BatchOrderAndCount ==
    bpc = "done" =>
        /\ Len(bresults) = Len(binput)
        /\ \A i \in DOMAIN binput : bresults[i].stim = binput[i]

\* three stimuli, not all the same, processed in chunks of two
C7_Witness ==
    /\ bpc = "done"
    /\ Len(binput) = 3
    /\ bsize = 2
    /\ binput[2] # binput[3]
    /\ binput[1] # binput[2]

\* C8: after every sequence of _extract calls the attributes and the
\* internal state of the extractor are those it had after construction.
C8_ExtractorImmutable ==
    \A x \in Instances : vectorizer[x] = Unfitted

\* C9: for a ComplexTextStim of any number k of elements the call returns
\* one result with the single feature 'word' and k rows, row i holding the
\* text of element i, with k onsets and k durations, those of the elements.
C9_OneRowPerElement ==
    ccall.outcome \notin {"none", "called"} =>
        LET k == Len(ccall.elements)
        IN /\ ccall.outcome = "ok"
           /\ ccall.features = <<"word">>
           /\ Len(ccall.values) = k
           /\ Len(ccall.onsets) = k
           /\ Len(ccall.durations) = k
           /\ \A i \in 1..k :
                 /\ ccall.values[i] = ccall.elements[i].text
                 /\ ccall.onsets[i] = ccall.elements[i].onset
                 /\ ccall.durations[i] = ccall.elements[i].duration

\* the tokens of a batch of documents, sorted
BatchTokens(stims) ==
    SelectSeq(TokenOrder,
              LAMBDA t : \E i \in DOMAIN stims : t \in Range(Analyze(stims[i])))

\* C10: the results of a call are determined by the batch of that call
\* alone: two instances whose last calls got the same batch returned the
\* same results, whatever they were called with before; the feature names
\* are the tokens of the batch, the same in every result, and there is one
\* result of one row per document.
C10_VocabularyIsCorpusLocal ==
    /\ \A x, y \in Instances :
          (vcall[x].outcome = "ok" /\ vcall[y].outcome = "ok"
              /\ vcall[x].stims = vcall[y].stims)
                  => vcall[x].results = vcall[y].results
    /\ \A x \in Instances :
          vcall[x].outcome = "ok" =>
              /\ Len(vcall[x].results) = Len(vcall[x].stims)
              /\ \A i \in DOMAIN vcall[x].results :
                    /\ vcall[x].results[i].features = BatchTokens(vcall[x].stims)
                    /\ Len(vcall[x].results[i].values) = 1
                    /\ Len(vcall[x].results[i].values[1])
                          = Len(vcall[x].results[i].features)

\* the same batch handed to a fresh instance and to one that was fitted on
\* a token the batch does not hold
C10_Witness ==
    /\ vcall["x1"].outcome = "ok"
    /\ vcall["x2"].outcome = "ok"
    /\ vcall["x1"].stims = vcall["x2"].stims
    /\ ~vcall["x1"].before.fitted
    /\ vcall["x2"].before.fitted
    /\ vcall["x2"].before.vocabulary_ \ vectorizer["x2"].vocabulary_ # {}

====
